---- MODULE Spec2Model ----
(***************************************************************************)
(* The blog editor of src/src/App.jsx: a React component holding a         *)
(* collection of documents ("blogs"), one rich-text editor instance, a     *)
(* debounced autosave timer and two localStorage keys.                     *)
(*                                                                         *)
(* Strings the code inspects character by character (titles, contents)     *)
(* are sequences of one-character strings.  A document id is the clock     *)
(* reading it was made from (Date.now().toString() is injective, so the    *)
(* reading stands for its decimal string); NoId stands for null.           *)
(*                                                                         *)
(* Every event handler is one action.  A handler runs against the values   *)
(* of the render that created it (blogs, currentBlogId, title,             *)
(* newBlogTitle: the unprimed variables), queues its setState calls in a   *)
(* record s, touches the editor and localStorage directly, and is followed *)
(* by the re-render and, when title, currentBlogId or blogs changed, by    *)
(* the "save on title change" effect of that render.                       *)
(***************************************************************************)
EXTENDS Integers, Sequences, FiniteSets, TLC

\* Largest clock reading (Date.now()) of a run.
MaxNow == 2
\* Largest number of documents createNewBlog may build up.
MaxBlogs == 2

\* Longest content string given to updateStats on its own.
MaxLen == 4

NoId == 0

AUTO_SAVE_INTERVAL == 3000

WelcomeTitle == <<"W","e","l","c","o","m","e">>
WelcomeContent == <<"<","h","1",">","W","e","l","c","o","m","e"," ","t","o"," ","Y","o","u","r"," ","P","r","o","f","e","s","s","i","o","n","a","l"," ","B","l","o","g"," ","E","d","i","t","o","r","<","/","h","1",">","<","p",">","S","t","a","r","t"," ","w","r","i","t","i","n","g"," ","y","o","u","r"," ","a","m","a","z","i","n","g"," ","c","o","n","t","e","n","t"," ","h","e","r","e",".",".",".","<","/","p",">">>
UntitledDocument == <<"U","n","t","i","t","l","e","d"," ","D","o","c","u","m","e","n","t">>
H1Open == <<"<","h","1",">">>
DocumentName == <<"d","o","c","u","m","e","n","t">>
StartWriting == <<"<","/","h","1",">","<","p",">","S","t","a","r","t"," ","w","r","i","t","i","n","g",".",".",".","<","/","p",">">>

\* What the user may type: into the editor, the title box, the new-blog box.
EditInputs == { <<"X">>, <<"<","p",">","H","i"," ","Y","<","/","p",">">> }
TitleInputs == { <<>> }
\* Content strings for updateStats on its own: every string of up to MaxLen
\* characters over a tag opener, a tag closer, a blank and a letter, and two
\* documents.
StatsAlphabet == {"<", ">", " ", "a"}
StatsInputs ==
  UNION {[1..n -> StatsAlphabet] : n \in 0..MaxLen}
    \cup { <<"<","h","1",">","H","i"," ","t","h","e","r","e","<","/","h","1",">">>,
           <<"<","p",">","<","/","p",">">> }
NewBlogTitleInputs == { <<>>, <<" ">>, <<"N","o","t","e","s">> }

-----------------------------------------------------------------------------
(* String helpers: String.prototype.trim, the tag-stripping replace and    *)
(* split(/\s+/) of updateStats.                                            *)

WhiteSpace == {" ", "\t", "\n"}

Trim(str) ==
  LET keep == {i \in DOMAIN str : str[i] \notin WhiteSpace}
  IN IF keep = {} THEN <<>>
     ELSE SubSeq(str, CHOOSE i \in keep : \A j \in keep : i <= j,
                      CHOOSE i \in keep : \A j \in keep : j <= i)

\* content.replace(/<[^>]*>/g, ''): a '<' up to the next '>' is dropped; a
\* '<' with no '>' after it stays.
RECURSIVE StripFrom(_, _)
StripFrom(str, i) ==
  LET closers == {q \in i..Len(str) : str[q] = ">"}
      opens == {p \in i..Len(str) : str[p] = "<" /\ \E q \in closers : q > p}
  IN IF opens = {} THEN SubSeq(str, i, Len(str))
     ELSE LET p == CHOOSE a \in opens : \A b \in opens : a <= b
              q == CHOOSE a \in closers : a > p /\ \A b \in closers : b > p => a <= b
          IN SubSeq(str, i, p - 1) \o StripFrom(str, q + 1)

StripTags(str) == StripFrom(str, 1)

\* plainText.split(/\s+/).length for a trimmed, non-empty plainText: one more
\* than the number of whitespace runs.
SplitLength(str) ==
  1 + Cardinality({i \in DOMAIN str : str[i] \in WhiteSpace
                                      /\ (i = 1 \/ str[i-1] \notin WhiteSpace)})

\* new Date().toLocaleString() and new Date().toLocaleTimeString() of a clock
\* reading; null is the empty tuple.
LocaleString(t) == <<"date", t>>
LocaleTimeString(t) == <<"time", t>>
Null == <<>>

-----------------------------------------------------------------------------
(* JSON.stringify / JSON.parse of a collection: the text is the list of    *)
(* objects, each a list of key/value members in property order.            *)

PropertyOrder == <<"id", "title", "content", "createdAt", "lastSaved", "wordCount", "charCount">>

\* A serializer that loses the creation timestamp.
StringifyObjectLossy(b) ==
  LET keys == SelectSeq(PropertyOrder, LAMBDA k : k \in DOMAIN b /\ k # "createdAt")
  IN [i \in 1..Len(keys) |-> <<keys[i], b[keys[i]]>>]

StringifyObject(b) ==
  LET keys == SelectSeq(PropertyOrder, LAMBDA k : k \in DOMAIN b)
  IN [i \in 1..Len(keys) |-> <<keys[i], b[keys[i]]>>]

JSONstringify(list) == [i \in 1..Len(list) |-> StringifyObject(list[i])]

ParseObject(members) ==
  [k \in {members[i][1] : i \in DOMAIN members} |->
     members[CHOOSE i \in DOMAIN members :
               /\ members[i][1] = k
               /\ \A j \in DOMAIN members : members[j][1] = k => j <= i][2]]

JSONparse(text) == [i \in 1..Len(text) |-> ParseObject(text[i])]

Absent == [kind |-> "absent"]
Corrupt == [kind |-> "corrupt"]
Stored(list) == [kind |-> "json", text |-> JSONstringify(list)]

-----------------------------------------------------------------------------
VARIABLES
  mounted,        \* the component is mounted and rteInstance.current is live
  blogs, currentBlogId, title, isSaved, lastSaved, wordCount, charCount,
  newBlogTitle,   \* useState values of the latest render
  editor,         \* what rteInstance.current.getContent() returns
  loadedId,       \* history: the blog whose content the last setContent loaded
  autoSaveTimerRef, \* autoSaveTimerRef.current: "null", or the timer it
                  \* names is "pending" or has "fired"
  pendingTimers,  \* scheduled autosave callbacks that have not fired
  effectDue,      \* a render whose title/currentBlogId/blogs changed is due
  lsBlogs, lsCurrent, \* localStorage: editor_blogs, editor_current_blog_id
  storeFull,      \* localStorage.setItem throws (quota exceeded)
  now,            \* the clock
  lastSaveArg,    \* history: the collection the last successful saveBlogs was given
  lastOp          \* history: the last user operation and what it saw

react == <<blogs, currentBlogId, title, isSaved, lastSaved, wordCount, charCount, newBlogTitle>>
vars == <<mounted, react, editor, loadedId, autoSaveTimerRef, pendingTimers, effectDue,
          lsBlogs, lsCurrent, storeFull, now, lastSaveArg, lastOp>>

rteLive == mounted

\* The values a handler works on: the render's state plus editor and storage.
Cur ==
  [blogs |-> blogs, currentBlogId |-> currentBlogId, title |-> title,
   isSaved |-> isSaved, lastSaved |-> lastSaved, wordCount |-> wordCount,
   charCount |-> charCount, newBlogTitle |-> newBlogTitle, editor |-> editor,
   loadedId |-> loadedId,
   lsBlogs |-> lsBlogs, lsCurrent |-> lsCurrent, threw |-> FALSE,
   blogsSet |-> FALSE, saveArg |-> lastSaveArg]

\* The next render: the queued setState values of s become the state.
Commit(s) ==
  /\ blogs' = s.blogs
  /\ currentBlogId' = s.currentBlogId
  /\ title' = s.title
  /\ isSaved' = s.isSaved
  /\ lastSaved' = s.lastSaved
  /\ wordCount' = s.wordCount
  /\ charCount' = s.charCount
  /\ newBlogTitle' = s.newBlogTitle
  /\ editor' = s.editor
  /\ loadedId' = s.loadedId
  /\ lsBlogs' = s.lsBlogs
  /\ lsCurrent' = s.lsCurrent
  /\ lastSaveArg' = s.saveArg

\* blogs.find(b => b.id === id): the first match, as a list of 0 or 1.
Find(list, id) ==
  LET hits == {i \in DOMAIN list : list[i].id = id}
  IN IF hits = {} THEN <<>>
     ELSE <<list[CHOOSE i \in hits : \A j \in hits : i <= j]>>

saveBlogs(s, updatedBlogs) ==
  IF storeFull THEN s
  ELSE [s EXCEPT !.lsBlogs = Stored(updatedBlogs), !.saveArg = updatedBlogs]

\* An updateStats that does not trim the stripped text.
updateStatsUntrimmed(s, content) ==
  LET plainText == StripTags(content)
  IN [s EXCEPT !.wordCount = IF Len(plainText) > 0 THEN SplitLength(plainText) ELSE 0,
               !.charCount = Len(plainText)]

updateStats(s, content) ==
  LET plainText == Trim(StripTags(content))
  IN [s EXCEPT !.wordCount = IF Len(plainText) > 0 THEN SplitLength(plainText) ELSE 0,
               !.charCount = Len(plainText)]

\* The initial useState values.
InitialState ==
  [blogs |-> <<>>, currentBlogId |-> NoId, title |-> UntitledDocument,
   isSaved |-> TRUE, lastSaved |-> Null, wordCount |-> 0, charCount |-> 0,
   newBlogTitle |-> <<>>, editor |-> <<>>, loadedId |-> NoId,
   lsBlogs |-> lsBlogs, lsCurrent |-> lsCurrent, threw |-> FALSE,
   blogsSet |-> FALSE, saveArg |-> lastSaveArg]

\* A loadBlogs without the else-if branch: a pointer that names no stored blog
\* selects nothing.
loadBlogsNoFallback(s) ==
  IF lsBlogs.kind = "json"
  THEN LET blogsList == JSONparse(lsBlogs.text)
           s1 == [s EXCEPT !.blogs = blogsList]
       IN IF lsCurrent # NoId /\ Find(blogsList, lsCurrent) # <<>>
          THEN [state |-> [s1 EXCEPT !.currentBlogId = lsCurrent],
                blog |-> Find(blogsList, lsCurrent)]
          ELSE [state |-> s1, blog |-> <<>>]
  ELSE [state |-> s, blog |-> <<>>]

\* loadBlogs: the state after its setState calls and the blog it returns (a
\* list of 0 or 1).  A corrupt entry makes JSON.parse throw into the catch.
loadBlogs(s) ==
  IF lsBlogs.kind = "json"
  THEN LET blogsList == JSONparse(lsBlogs.text)
           s1 == [s EXCEPT !.blogs = blogsList]
       IN IF lsCurrent # NoId /\ Find(blogsList, lsCurrent) # <<>>
          THEN [state |-> [s1 EXCEPT !.currentBlogId = lsCurrent],
                blog |-> Find(blogsList, lsCurrent)]
          ELSE IF Len(blogsList) > 0
          THEN [state |-> [s1 EXCEPT !.currentBlogId = blogsList[1].id],
                blog |-> <<blogsList[1]>>]
          ELSE [state |-> s1, blog |-> <<>>]
  ELSE [state |-> s, blog |-> <<>>]

\* A title effect that also refreshes createdAt.
titleEffectRestamping(s) ==
  IF rteLive /\ s.currentBlogId # NoId
  THEN LET content == s.editor
           updatedBlogs ==
             [i \in DOMAIN s.blogs |->
                IF s.blogs[i].id = s.currentBlogId
                THEN [s.blogs[i] EXCEPT !.title = s.title,
                                        !.content = content,
                                        !.createdAt = LocaleString(now),
                                        !.lastSaved = LocaleString(now)]
                ELSE s.blogs[i]]
       IN [saveBlogs([s EXCEPT !.blogs = updatedBlogs, !.blogsSet = TRUE], updatedBlogs)
             EXCEPT !.lastSaved = LocaleTimeString(now)]
  ELSE s

\* The "save on title change" effect, run for the render whose values are s.
titleEffect(s) ==
  IF rteLive /\ s.currentBlogId # NoId
  THEN LET content == s.editor
           updatedBlogs ==
             [i \in DOMAIN s.blogs |->
                IF s.blogs[i].id = s.currentBlogId
                THEN [s.blogs[i] EXCEPT !.title = s.title,
                                        !.content = content,
                                        !.lastSaved = LocaleString(now)]
                ELSE s.blogs[i]]
       IN [saveBlogs([s EXCEPT !.blogs = updatedBlogs, !.blogsSet = TRUE], updatedBlogs)
             EXCEPT !.lastSaved = LocaleTimeString(now)]
  ELSE s

\* The re-render after a handler: when title, currentBlogId or blogs (a new
\* array) differ from the previous render, the title effect runs on the new
\* values.
DepsChanged(s) == s.title # title \/ s.currentBlogId # currentBlogId \/ s.blogsSet
Render(s) == IF DepsChanged(s) THEN titleEffect(s) ELSE s

\* blogs.map(b => b.id === id ? {...b, content, lastSaved: now} : b)
WithContent(list, id, content) ==
  [i \in DOMAIN list |->
     IF list[i].id = id
     THEN [list[i] EXCEPT !.content = content, !.lastSaved = LocaleString(now)]
     ELSE list[i]]

\* switchBlog, on the blogs and currentBlogId of the render that made it.
\* localStorage.setItem of the pointer is outside any try: when it throws the
\* handler stops there, after setCurrentBlogId.
switchBlog(s, blogId) ==
  LET s1 == IF currentBlogId # NoId /\ rteLive
            THEN saveBlogs(s, WithContent(blogs, currentBlogId, s.editor))
            ELSE s
      found == Find(blogs, blogId)
  IN IF found # <<>> /\ rteLive
     THEN LET blog == found[1]
          IN IF storeFull
             THEN [s1 EXCEPT !.currentBlogId = blogId, !.threw = TRUE]
             ELSE [updateStats([s1 EXCEPT !.currentBlogId = blogId,
                                          !.lsCurrent = blogId,
                                          !.title = blog.title,
                                          !.editor = blog.content,
                                          !.loadedId = blogId,
                                          !.lastSaved = blog.lastSaved],
                               blog.content)
                     EXCEPT !.isSaved = TRUE]
     ELSE s1

\* A createNewBlog that tests the title without trimming it.
createNewBlogNoTrim(s) ==
  IF s.newBlogTitle = <<>> THEN s
  ELSE LET newBlog == [id |-> now, title |-> s.newBlogTitle,
                       content |-> H1Open \o s.newBlogTitle \o StartWriting,
                       createdAt |-> LocaleString(now),
                       lastSaved |-> LocaleString(now),
                       wordCount |-> 0, charCount |-> 0]
           updatedBlogs == <<newBlog>> \o blogs
       IN [saveBlogs([s EXCEPT !.blogs = updatedBlogs, !.blogsSet = TRUE,
                               !.currentBlogId = newBlog.id,
                               !.title = newBlog.title],
                     updatedBlogs)
             EXCEPT !.newBlogTitle = <<>>]

createNewBlog(s) ==
  IF Trim(s.newBlogTitle) = <<>> THEN s
  ELSE LET newBlog == [id |-> now, title |-> s.newBlogTitle,
                       content |-> H1Open \o s.newBlogTitle \o StartWriting,
                       createdAt |-> LocaleString(now),
                       lastSaved |-> LocaleString(now),
                       wordCount |-> 0, charCount |-> 0]
           updatedBlogs == <<newBlog>> \o blogs
       IN [saveBlogs([s EXCEPT !.blogs = updatedBlogs, !.blogsSet = TRUE,
                               !.currentBlogId = newBlog.id,
                               !.title = newBlog.title],
                     updatedBlogs)
             EXCEPT !.newBlogTitle = <<>>]

\* A deleteBlog without the last-blog guard.
deleteBlogUnguarded(s, blogId, confirmed) ==
  IF ~confirmed THEN s
  ELSE LET updatedBlogs == SelectSeq(blogs, LAMBDA b : b.id # blogId)
           s1 == saveBlogs([s EXCEPT !.blogs = updatedBlogs, !.blogsSet = TRUE],
                           updatedBlogs)
       IN IF currentBlogId = blogId
          THEN IF Len(updatedBlogs) = 0
               THEN [s1 EXCEPT !.threw = TRUE]
               ELSE switchBlog(s1, updatedBlogs[1].id)
          ELSE s1

\* deleteBlog; confirmed is the answer to window.confirm.  With the active
\* blog deleted it calls switchBlog(updatedBlogs[0].id), which throws when
\* updatedBlogs is empty.
deleteBlog(s, blogId, confirmed) ==
  IF Len(blogs) = 1 THEN s
  ELSE IF ~confirmed THEN s
  ELSE LET updatedBlogs == SelectSeq(blogs, LAMBDA b : b.id # blogId)
           s1 == saveBlogs([s EXCEPT !.blogs = updatedBlogs, !.blogsSet = TRUE],
                           updatedBlogs)
       IN IF currentBlogId = blogId
          THEN IF Len(updatedBlogs) = 0
               THEN [s1 EXCEPT !.threw = TRUE]
               ELSE switchBlog(s1, updatedBlogs[1].id)
          ELSE s1

\* The order of switchBlog's calls, as the handler makes them.
switchBlogStepsLoadFirst(blogId) ==
  (IF Find(blogs, blogId) # <<>> /\ rteLive
   THEN <<"setCurrentBlogId", "setItem">>
        \o (IF storeFull THEN <<>>
            ELSE <<"setTitle", "setContent", "setLastSaved", "updateStats", "setIsSaved">>)
   ELSE <<>>)
  \o (IF currentBlogId # NoId /\ rteLive THEN <<"getContent", "saveBlogs">> ELSE <<>>)

switchBlogSteps(blogId) ==
  (IF currentBlogId # NoId /\ rteLive THEN <<"getContent", "saveBlogs">> ELSE <<>>)
  \o (IF Find(blogs, blogId) # <<>> /\ rteLive
      THEN <<"setCurrentBlogId", "setItem">>
           \o (IF storeFull THEN <<>>
               ELSE <<"setTitle", "setContent", "setLastSaved", "updateStats", "setIsSaved">>)
      ELSE <<>>)

\* An export that also marks the document saved.
handleExportMarkingSaved(s) ==
  IF rteLive
  THEN [state |-> [s EXCEPT !.isSaved = TRUE],
        download |-> <<IF s.title = <<>> THEN DocumentName ELSE s.title, s.title, s.editor>>]
  ELSE [state |-> s, download |-> <<>>]

\* handleExport: the state it leaves and the download it offers (file name
\* without the extension, the <title> text, the <body> text).
handleExport(s) ==
  IF rteLive
  THEN [state |-> s,
        download |-> <<IF s.title = <<>> THEN DocumentName ELSE s.title, s.title, s.editor>>]
  ELSE [state |-> s, download |-> <<>>]

\* The values the autosave callback closes over: handleContentChange is made
\* by the mount effect (dependencies []), so they are those of the first
\* render.
ClosureBlogs == <<>>
ClosureCurrentBlogId == NoId

\* The setTimeout callback of handleContentChange.
autoSave(s) ==
  LET content == s.editor
      currentId == IF ClosureCurrentBlogId # NoId THEN ClosureCurrentBlogId
                   ELSE IF Len(ClosureBlogs) > 0 THEN ClosureBlogs[1].id
                   ELSE NoId
  IN IF currentId # NoId
     THEN LET updatedBlogs == WithContent(ClosureBlogs, currentId, content)
          IN [updateStats(saveBlogs([s EXCEPT !.blogs = updatedBlogs, !.blogsSet = TRUE],
                                    updatedBlogs),
                          content)
                EXCEPT !.lastSaved = LocaleTimeString(now), !.isSaved = TRUE]
     ELSE s

\* Number of commits (setBlogs with saveBlogs) one run of the callback makes.
AutoSaveCommits(s) == IF autoSave(s).blogsSet THEN 1 ELSE 0

-----------------------------------------------------------------------------
Init ==
  /\ mounted = FALSE
  /\ blogs = <<>>
  /\ currentBlogId = NoId
  /\ title = UntitledDocument
  /\ isSaved = TRUE
  /\ lastSaved = Null
  /\ wordCount = 0
  /\ charCount = 0
  /\ newBlogTitle = <<>>
  /\ editor = <<>>
  /\ loadedId = NoId
  /\ autoSaveTimerRef = "null"
  /\ pendingTimers = 0
  /\ effectDue = FALSE
  /\ lsBlogs \in {Absent, Corrupt}
  /\ lsCurrent = NoId
  /\ storeFull = FALSE
  /\ now = 1
  /\ lastSaveArg = <<>>
  /\ lastOp = [op |-> "init"]

\* The mount effect ("Initialize editor"): loadBlogs, the editor instance,
\* the current or the first blog, the listeners.  The title effect of the
\* first render sees currentBlogId = null and does nothing.
Mount ==
  /\ ~mounted
  /\ LET l == loadBlogs(InitialState)
         s == IF l.blog # <<>>
              THEN LET currentBlog == l.blog[1]
                   IN updateStats([l.state EXCEPT !.title = currentBlog.title,
                                                  !.editor = currentBlog.content,
                                                  !.loadedId = currentBlog.id,
                                                  !.lastSaved = currentBlog.lastSaved],
                                  currentBlog.content)
              ELSE LET firstBlog == [id |-> now, title |-> WelcomeTitle,
                                     content |-> WelcomeContent,
                                     createdAt |-> LocaleString(now),
                                     lastSaved |-> LocaleString(now)]
                   IN saveBlogs([l.state EXCEPT !.blogs = <<firstBlog>>,
                                                !.currentBlogId = firstBlog.id,
                                                !.title = firstBlog.title,
                                                !.editor = firstBlog.content,
                                                !.loadedId = firstBlog.id],
                                <<firstBlog>>)
     IN /\ Commit(s)
        /\ lastOp' = [op |-> "mount", seeded |-> l.blog = <<>>,
                      prevActive |-> IF lastOp.op = "unmount" THEN lastOp.active ELSE NoId,
                      threw |-> s.threw]
  /\ mounted' = TRUE
  /\ effectDue' = TRUE
  /\ UNCHANGED <<autoSaveTimerRef, pendingTimers, storeFull, now>>

\* One more round of the title effect: its setBlogs installs a new array, so
\* the render it causes has a changed dependency and the effect is due again.
TitleEffect ==
  /\ mounted
  /\ effectDue
  /\ \E r \in {titleEffect(Cur)} : Commit(r)
  /\ effectDue' = (rteLive /\ currentBlogId # NoId)
  /\ UNCHANGED <<mounted, autoSaveTimerRef, pendingTimers, storeFull, now, lastOp>>

Tick ==
  /\ now < MaxNow
  /\ now' = now + 1
  /\ UNCHANGED <<mounted, react, editor, loadedId, autoSaveTimerRef, pendingTimers,
                 effectDue, lsBlogs, lsCurrent, storeFull, lastSaveArg, lastOp>>

\* A handleContentChange that arms a new timer without clearing the last.
handleContentChangeNoClear ==
  /\ isSaved' = FALSE
  /\ autoSaveTimerRef' = "pending"
  /\ pendingTimers' = pendingTimers + 1

\* handleContentChange, the 'input' and 'change' listener: (re)arms the timer.
handleContentChange ==
  /\ isSaved' = FALSE
  /\ autoSaveTimerRef' = "pending"
  /\ pendingTimers' = (IF autoSaveTimerRef = "pending" THEN pendingTimers - 1
                       ELSE pendingTimers) + 1

\* The user edits the text: the editor holds c and 'input' is dispatched.
Input(c) ==
  /\ mounted
  /\ editor # c
  /\ editor' = c
  /\ handleContentChange
  /\ lastOp' = [op |-> "signal", rearmed |-> autoSaveTimerRef = "pending"]
  /\ UNCHANGED <<mounted, blogs, currentBlogId, title, lastSaved, wordCount, charCount,
                 newBlogTitle, loadedId, effectDue, lsBlogs, lsCurrent, storeFull, now,
                 lastSaveArg>>

\* A 'change' event with the text as it is.
Change ==
  /\ mounted
  /\ handleContentChange
  /\ lastOp' = [op |-> "signal", rearmed |-> autoSaveTimerRef = "pending"]
  /\ UNCHANGED <<mounted, blogs, currentBlogId, title, lastSaved, wordCount, charCount,
                 newBlogTitle, editor, loadedId, effectDue, lsBlogs, lsCurrent, storeFull,
                 now, lastSaveArg>>

\* The quiet period has passed: the pending callback runs.
TimerFire ==
  /\ mounted
  /\ pendingTimers > 0
  /\ \E s \in {autoSave(Cur)} : \E r \in {Render(s)} :
        /\ Commit(r)
        /\ effectDue' = (IF DepsChanged(s) THEN r.blogsSet ELSE effectDue)
        /\ lastOp' = [op |-> "fire", commits |-> AutoSaveCommits(Cur)]
  /\ pendingTimers' = pendingTimers - 1
  /\ autoSaveTimerRef' = "fired"
  /\ UNCHANGED <<mounted, storeFull, now>>

\* The new-blog box holds t (its onChange is setNewBlogTitle(e.target.value))
\* and Enter or the Create button runs createNewBlog.
CreateNewBlog(t) ==
  /\ mounted
  /\ Len(blogs) < MaxBlogs
  /\ \E s \in {createNewBlog([Cur EXCEPT !.newBlogTitle = t])} : \E r \in {Render(s)} :
        /\ Commit(r)
        /\ effectDue' = (IF DepsChanged(s) THEN r.blogsSet ELSE effectDue)
        /\ lastOp' = [op |-> "create", rejected |-> ~s.blogsSet, threw |-> s.threw]
  /\ UNCHANGED <<mounted, autoSaveTimerRef, pendingTimers, storeFull, now>>

\* A click on a blog of the list.
SwitchBlog(blogId) ==
  /\ mounted
  /\ \E s \in {switchBlog(Cur, blogId)} : \E r \in {Render(s)} :
        /\ Commit(r)
        /\ effectDue' = (IF DepsChanged(s) THEN r.blogsSet ELSE effectDue)
        /\ lastOp' = [op |-> "switch", from |-> currentBlogId, target |-> blogId,
                      ed |-> editor,
                      unsaved |-> Find(blogs, currentBlogId) # <<>>
                                  /\ Find(blogs, currentBlogId)[1].content # editor,
                      targetStored |-> Find(blogs, blogId)[1].content,
                      back |-> lastOp.op = "switch" /\ lastOp.from = blogId
                               /\ lastOp.target = currentBlogId /\ ~lastOp.threw,
                      backEd |-> IF lastOp.op = "switch" THEN lastOp.ed ELSE Null,
                      steps |-> switchBlogSteps(blogId),
                      threw |-> s.threw]
  /\ UNCHANGED <<mounted, newBlogTitle, autoSaveTimerRef, pendingTimers, storeFull, now>>

\* A click on the trash icon of a blog of the list.
DeleteBlog(blogId, confirmed) ==
  /\ mounted
  /\ \E s \in {deleteBlog(Cur, blogId, confirmed)} : \E r \in {Render(s)} :
        /\ Commit(r)
        /\ effectDue' = (IF DepsChanged(s) THEN r.blogsSet ELSE effectDue)
        /\ lastOp' = [op |-> "delete", rejected |-> Len(blogs) = 1,
                      confirmed |-> confirmed, threw |-> s.threw, id |-> blogId,
                      restored |-> /\ s.lsBlogs.kind = "json"
                                   /\ Find(JSONparse(s.lsBlogs.text), blogId) # <<>>]
  /\ UNCHANGED <<mounted, newBlogTitle, autoSaveTimerRef, pendingTimers, storeFull, now>>

\* onChange of the title input: setTitle(e.target.value).
SetTitle(t) ==
  /\ mounted
  /\ title # t
  /\ \E s \in {[Cur EXCEPT !.title = t]} : \E r \in {Render(s)} :
        /\ Commit(r)
        /\ effectDue' = (IF DepsChanged(s) THEN r.blogsSet ELSE effectDue)
        /\ lastOp' = [op |-> "title"]
  /\ UNCHANGED <<mounted, newBlogTitle, autoSaveTimerRef, pendingTimers, storeFull, now>>

\* A click on Export.
Export ==
  /\ mounted
  /\ \E r \in {handleExport(Cur)} :
        /\ Commit(r.state)
        /\ lastOp' = [op |-> "export", download |-> r.download]
  /\ UNCHANGED <<mounted, autoSaveTimerRef, pendingTimers, effectDue, storeFull, now>>

\* The page is left or reloaded: the cleanup of the mount effect clears the
\* timer; the component's state and the editor are gone, localStorage stays.
\* The cleanup calls removeEventListener through editorRef.current?., which
\* React may already have reset to null (refLive false); it holds no call of
\* rteInstance.current.destroy().
Unmount ==
  /\ mounted
  /\ mounted' = FALSE
  /\ Commit(InitialState)
  /\ autoSaveTimerRef' = "null"
  /\ pendingTimers' = IF autoSaveTimerRef = "pending" THEN pendingTimers - 1
                      ELSE pendingTimers
  /\ effectDue' = FALSE
  /\ \E refLive \in BOOLEAN :
        lastOp' = [op |-> "unmount", active |-> currentBlogId,
                   destroyCalled |-> FALSE,
                   listeners |-> IF refLive THEN {} ELSE {"input", "change"}]
  /\ UNCHANGED <<storeFull, now>>

Ids == {blogs[i].id : i \in DOMAIN blogs}

Next ==
  \/ Mount
  \/ TitleEffect
  \/ Tick
  \/ \E c \in EditInputs : Input(c)
  \/ Change
  \/ TimerFire
  \/ \E t \in NewBlogTitleInputs : CreateNewBlog(t)
  \/ \E id \in Ids : SwitchBlog(id)
  \/ \E id \in Ids, confirmed \in BOOLEAN : DeleteBlog(id, confirmed)
  \/ \E t \in TitleInputs : SetTitle(t)
  \/ Export
  \/ Unmount

Spec == Init /\ [][Next]_vars

\* The same program on a browser whose localStorage may refuse every write
\* (quota exhausted, storage disabled): setItem throws throughout the run.
InitQuota ==
  /\ mounted = FALSE
  /\ blogs = <<>>
  /\ currentBlogId = NoId
  /\ title = UntitledDocument
  /\ isSaved = TRUE
  /\ lastSaved = Null
  /\ wordCount = 0
  /\ charCount = 0
  /\ newBlogTitle = <<>>
  /\ editor = <<>>
  /\ loadedId = NoId
  /\ autoSaveTimerRef = "null"
  /\ pendingTimers = 0
  /\ effectDue = FALSE
  /\ lsBlogs \in {Absent, Corrupt}
  /\ lsCurrent = NoId
  /\ storeFull \in BOOLEAN
  /\ now = 1
  /\ lastSaveArg = <<>>
  /\ lastOp = [op |-> "init"]

SpecQuota == InitQuota /\ [][Next]_vars

\* updateStats on its own: a content string is given, updateStats is applied.
InitStats ==
  /\ mounted = FALSE
  /\ blogs = <<>>
  /\ currentBlogId = NoId
  /\ title = UntitledDocument
  /\ isSaved = TRUE
  /\ lastSaved = Null
  /\ wordCount = 0
  /\ charCount = 0
  /\ newBlogTitle = <<>>
  /\ editor = <<>>
  /\ loadedId = NoId
  /\ autoSaveTimerRef = "null"
  /\ pendingTimers = 0
  /\ effectDue = FALSE
  /\ lsBlogs = Absent
  /\ lsCurrent = NoId
  /\ storeFull = FALSE
  /\ now = 1
  /\ lastSaveArg = <<>>
  /\ \E c \in StatsInputs : lastOp = [op |-> "content", content |-> c]

ApplyStats ==
  /\ lastOp.op = "content"
  /\ Commit(updateStats(Cur, lastOp.content))
  /\ lastOp' = [op |-> "stats", content |-> lastOp.content]
  /\ UNCHANGED <<mounted, autoSaveTimerRef, pendingTimers, effectDue, storeFull, now>>

NextStats == ApplyStats
SpecStats == InitStats /\ [][NextStats]_vars

-----------------------------------------------------------------------------
(* Properties.                                                             *)

\* The collection a load would read from the store.
Persisted == IF lsBlogs.kind = "json" THEN JSONparse(lsBlogs.text) ELSE <<>>

\* The stored content of the first blog with this id, as a list of 0 or 1.
ContentOf(list, id) ==
  IF Find(list, id) = <<>> THEN <<>> ELSE <<Find(list, id)[1].content>>

\* C1 (flush before load): after a switch from blog A, whose editor text E was
\* not yet stored, to another blog B, A's stored content is E in memory and in
\* the store, and the editor shows what B had stored.
FlushBeforeLoad ==
  (lastOp.op = "switch" /\ lastOp.from # lastOp.target /\ lastOp.unsaved /\ ~lastOp.threw)
    => /\ ContentOf(blogs, lastOp.from) = <<lastOp.ed>>
       /\ ContentOf(Persisted, lastOp.from) = <<lastOp.ed>>
       /\ editor = lastOp.targetStored

\* C2 (switch round trip): after switching from A, with editor text X, to B
\* and straight back to A, the editor shows X and A's stored content is X.
SwitchRoundTrip ==
  (lastOp.op = "switch" /\ lastOp.back /\ lastOp.from # lastOp.target /\ ~lastOp.threw)
    => /\ editor = lastOp.backEd
       /\ ContentOf(blogs, lastOp.target) = <<lastOp.backEd>>

\* C3 (autosave commit): the fire of the debounce timer writes the editor's
\* text into the active blog, in memory and in the store, refreshes that
\* blog's lastSaved and marks the state saved.
AutosaveCommit ==
  [][TimerFire =>
       /\ isSaved'
       /\ ContentOf(blogs', currentBlogId) = <<editor>>
       /\ lsBlogs'.kind = "json"
       /\ ContentOf(JSONparse(lsBlogs'.text), currentBlogId) = <<editor>>
       /\ Find(blogs', currentBlogId)[1].lastSaved = LocaleString(now)]_vars

\* C4 (debounce coalescing): a burst of change signals ends in a fire that
\* makes exactly one commit, and what is then stored for the active blog is
\* the editor's text.
DebounceCoalescing ==
  lastOp.op = "fire"
    => /\ lastOp.commits = 1
       /\ ContentOf(Persisted, currentBlogId) = <<editor>>

\* C5 (non-emptiness): once mounted the collection holds at least one blog,
\* and a first run synthesizes exactly one.
NonEmptiness ==
  /\ mounted => Len(blogs) >= 1
  /\ (lastOp.op = "mount" /\ lastOp.seeded) => Len(blogs) = 1

\* C6 (last blog): deleteBlog on a collection of one changes neither the
\* collection, nor the store, nor the active id, nor the pointer, nor the
\* editor.
DeleteSoleRejected ==
  [][\A id \in Ids, confirmed \in BOOLEAN :
       (Len(blogs) = 1 /\ DeleteBlog(id, confirmed))
         => UNCHANGED <<blogs, lsBlogs, currentBlogId, lsCurrent, editor>>]_vars

DeleteSoleRejectedWitness ==
  /\ lastOp.op = "delete" /\ lastOp.rejected /\ lastOp.confirmed
  /\ Len(blogs) = 1 /\ currentBlogId = blogs[1].id

\* C7 (uniqueness): the ids of the blogs of the collection are pairwise
\* distinct.
Uniqueness ==
  \A i, j \in DOMAIN blogs : i # j => blogs[i].id # blogs[j].id

\* C8 (reload round trip): what loadBlogs reads back is the collection that
\* saveBlogs was given: same order, every field of every blog.
ReloadRoundTrip ==
  lsBlogs.kind = "json" => loadBlogs(InitialState).state.blogs = lastSaveArg

ReloadRoundTripWitness ==
  /\ lastOp.op = "mount" /\ ~lastOp.seeded
  /\ Len(blogs) >= 2 /\ blogs = lastSaveArg
  /\ \E i \in DOMAIN blogs : "wordCount" \in DOMAIN blogs[i]
  /\ \E i \in DOMAIN blogs : "wordCount" \notin DOMAIN blogs[i]

\* C9 (session restoration): the blog active after a reload is the blog that
\* was active before it.
SessionRestoration ==
  (lastOp.op = "mount" /\ lastOp.prevActive # NoId)
    => currentBlogId = lastOp.prevActive

\* C10 (missing reference): a load that finds a non-empty collection and a
\* pointer that is absent or names no blog of it makes the first blog active,
\* loads its content into the editor and raises nothing.
MissingReferenceFallback ==
  [][(/\ Mount
      /\ lsBlogs.kind = "json" /\ Len(lastSaveArg) > 0
      /\ (lsCurrent = NoId \/ Find(lastSaveArg, lsCurrent) = <<>>))
       => /\ currentBlogId' = lastSaveArg[1].id
          /\ editor' = lastSaveArg[1].content
          /\ blogs' = lastSaveArg
          /\ ~lastOp'.threw]_vars

MissingReferenceFallbackWitness ==
  /\ lastOp.op = "mount" /\ ~lastOp.seeded
  /\ lsCurrent # NoId /\ Find(blogs, lsCurrent) = <<>>
  /\ currentBlogId = blogs[1].id /\ editor = blogs[1].content

\* C11 (create postcondition): createNewBlog with a non-blank title T, with
\* the effect of the render it causes, leaves one more blog than before; the
\* new blog is first, is the active one, and its content, in memory and in
\* the store, is '<h1>' + T + '</h1><p>Start writing...</p>'.
CreatePostcondition ==
  [][\A t \in NewBlogTitleInputs :
       (Trim(t) # <<>> /\ CreateNewBlog(t))
         => /\ Len(blogs') = Len(blogs) + 1
            /\ blogs'[1].id = currentBlogId'
            /\ blogs'[1].content = H1Open \o t \o StartWriting
            /\ Persisted' = blogs']_vars

\* C12 (no edit dropped): a switchBlog to another blog, or a createNewBlog,
\* leaves the text the editor held in the outgoing blog's content, in memory
\* and in the store.
NoEditDropped ==
  [][/\ \A id \in Ids :
          (SwitchBlog(id) /\ id # currentBlogId /\ Find(blogs, currentBlogId) # <<>>)
            => /\ ContentOf(blogs', currentBlogId) = <<editor>>
               /\ ContentOf(Persisted', currentBlogId) = <<editor>>
     /\ \A t \in NewBlogTitleInputs :
          (CreateNewBlog(t) /\ Trim(t) # <<>> /\ Find(blogs, currentBlogId) # <<>>)
            => /\ ContentOf(blogs', currentBlogId) = <<editor>>
               /\ ContentOf(Persisted', currentBlogId) = <<editor>>]_vars

\* C13 (the store mirrors memory): while the component is mounted and the
\* store accepts every write, the collection in the store is the collection
\* in memory.
PersistedMirrorsMemory ==
  mounted => Persisted = blogs

\* C14 (storage failures stay inside): with a store that refuses writes, a
\* switchBlog raises nothing and leaves the clicked blog active with its
\* stored content in the editor and its title in the title box.
StorageFailSoft ==
  (storeFull /\ lastOp.op = "switch")
    => /\ ~lastOp.threw
       /\ currentBlogId = lastOp.target
       /\ editor = lastOp.targetStored

\* C15 (save-status honesty): a step whose write of the collection is refused
\* by the store (the seeding mount, a title commit) ends with isSaved false.
SaveStatusHonest ==
  [][(/\ storeFull
      /\ \/ Mount /\ lsBlogs.kind # "json"
         \/ /\ currentBlogId # NoId
            /\ TitleEffect \/ \E t \in TitleInputs : SetTitle(t))
       => ~isSaved']_vars

\* C16 (deleting the active blog): a confirmed deleteBlog of the active blog
\* of a collection of two or more makes the first remaining blog active, with
\* its content in the editor and its title, the pointer, the saved flag and
\* the statistics following it.
DeleteActive ==
  [][\A id \in Ids :
       (DeleteBlog(id, TRUE) /\ Len(blogs) >= 2 /\ currentBlogId = id)
         => /\ Len(blogs') >= 1
            /\ currentBlogId' = blogs'[1].id
            /\ lsCurrent' = blogs'[1].id
            /\ editor' = blogs'[1].content
            /\ title' = blogs'[1].title
            /\ isSaved'
            /\ wordCount' = updateStats(Cur, blogs'[1].content).wordCount
            /\ charCount' = updateStats(Cur, blogs'[1].content).charCount]_vars

\* C17 (blank title): createNewBlog with an empty or whitespace-only title
\* changes neither the collection, nor the store, nor the active id, nor the
\* title, nor the editor.
CreateBlankNoOp ==
  [][\A t \in NewBlogTitleInputs :
       (Trim(t) = <<>> /\ CreateNewBlog(t))
         => UNCHANGED <<blogs, lsBlogs, currentBlogId, lsCurrent, title, editor>>]_vars

CreateBlankNoOpWitness ==
  /\ lastOp.op = "create" /\ lastOp.rejected
  /\ newBlogTitle = <<" ">> /\ Len(blogs) >= 1

\* C18 (title commit): a title edit puts the new title on the active blog, in
\* memory and in the store, in the same step, and changes no other blog's
\* title.
TitleCommitImmediate ==
  [][\A t \in TitleInputs :
       (SetTitle(t) /\ Find(blogs, currentBlogId) # <<>>)
         => /\ Find(blogs', currentBlogId)[1].title = t
            /\ Find(Persisted', currentBlogId)[1].title = t
            /\ Len(blogs') = Len(blogs)
            /\ \A i \in DOMAIN blogs :
                  (\E j \in 1..(i-1) : blogs[j].id = currentBlogId) \/ blogs[i].id # currentBlogId
                    => blogs'[i].title = blogs[i].title]_vars

\* C19 (content frame): a title edit, with the commit it triggers, leaves the
\* content of every blog of the collection as it was.
TitleEditKeepsContent ==
  [][\A t \in TitleInputs :
       SetTitle(t) => /\ Len(blogs') = Len(blogs)
                      /\ \A i \in DOMAIN blogs : blogs'[i].content = blogs[i].content]_vars

\* C20 (switch cancels the timer): after a switchBlog no debounce timer is
\* pending.
SwitchCancelsTimer ==
  lastOp.op = "switch" => (autoSaveTimerRef # "pending" /\ pendingTimers = 0)

\* C21 (unmount flushes): an unmount with a pending timer leaves the editor's
\* text as the active blog's content in the store.
UnmountFlushes ==
  [][(Unmount /\ autoSaveTimerRef = "pending" /\ Find(blogs, currentBlogId) # <<>>)
       => ContentOf(Persisted', currentBlogId) = <<editor>>]_vars

\* C22 (teardown): the unmount has called the editor instance's destroy() and
\* has removed the 'input' and the 'change' listener.
TeardownReleases ==
  lastOp.op = "unmount" => (lastOp.destroyCalled /\ lastOp.listeners = {})

\* C23 (one timer): at most one scheduled autosave callback has not fired.
AtMostOneTimer ==
  pendingTimers \in {0, 1}

AtMostOneTimerWitness ==
  /\ lastOp.op = "signal" /\ lastOp.rearmed
  /\ pendingTimers = 1 /\ autoSaveTimerRef = "pending"

\* C24 (statistics follow the editor): after the initial load or seed, after
\* a switchBlog and after an autosave fire, wordCount and charCount are the
\* statistics of the text the editor shows.
StatsFresh ==
  (mounted /\ lastOp.op \in {"mount", "switch", "fire"})
    => /\ wordCount = updateStats(Cur, editor).wordCount
       /\ charCount = updateStats(Cur, editor).charCount

\* C25 (statistics function): updateStats drops every character that lies in
\* a '<...>' tag and trims the rest; wordCount is the number of runs of
\* non-blank characters of that text, charCount is its length from the first
\* to the last non-blank character; '<h1>Hi there</h1>' gives 2 and 8,
\* '<p></p>' gives 0 and 0.
StatsFunction ==
  lastOp.op = "stats" =>
    LET str == lastOp.content
        InTag(i) == \E p \in 1..i, q \in i..Len(str) :
                      /\ str[p] = "<" /\ str[q] = ">"
                      /\ \A k \in p..(q-1) : str[k] # ">"
        Kept == {i \in DOMAIN str : ~InTag(i)}
        Text == {i \in Kept : str[i] \notin WhiteSpace}
        Starts == {i \in Text : \A j \in Kept : j < i =>
                                   \/ \E k \in Kept : j < k /\ k < i
                                   \/ str[j] \in WhiteSpace}
        Span == {i \in Kept : (\E a \in Text : a <= i) /\ (\E b \in Text : i <= b)}
    IN /\ wordCount = Cardinality(Starts)
       /\ charCount = Cardinality(Span)
       /\ str = <<"<","h","1",">","H","i"," ","t","h","e","r","e","<","/","h","1",">">>
            => (wordCount = 2 /\ charCount = 8)
       /\ str = <<"<","p",">","<","/","p",">">> => (wordCount = 0 /\ charCount = 0)

StatsFunctionWitness ==
  /\ lastOp.op = "stats"
  /\ lastOp.content = <<"<","h","1",">","H","i"," ","t","h","e","r","e","<","/","h","1",">">>
  /\ wordCount = 2 /\ charCount = 8

\* C26 (export): handleExport changes neither the collection, nor the store,
\* nor the active id, nor the pointer, nor the title, nor the saved flag, nor
\* the timer, nor the editor, with an empty title as with any other.
ExportNoMutation ==
  [][Export => UNCHANGED <<blogs, lsBlogs, currentBlogId, lsCurrent, title, isSaved,
                           autoSaveTimerRef, pendingTimers, editor>>]_vars

ExportNoMutationWitness ==
  /\ lastOp.op = "export" /\ title = <<>> /\ lastOp.download[1] = DocumentName
  /\ ~isSaved /\ autoSaveTimerRef = "pending" /\ Len(blogs) = 2

\* C27 (id and createdAt): no step changes the id or the createdAt of a blog
\* that stays in the collection: the (id, createdAt) pairs of the collection
\* are, in order, those of before, with one more in front after a create and
\* some left out after a delete; the store holds the same pairs, and a reload
\* brings back the pairs that were stored.
IdCreatedAtImmutable ==
  /\ [](mounted => [i \in DOMAIN Persisted |-> <<Persisted[i].id, Persisted[i].createdAt>>]
                      = [i \in DOMAIN blogs |-> <<blogs[i].id, blogs[i].createdAt>>])
  /\ [][LET K(list) == [i \in DOMAIN list |-> <<list[i].id, list[i].createdAt>>]
            Sub(new, old) ==
              new = SelectSeq(old, LAMBDA k : \E i \in DOMAIN new : new[i] = k)
        IN /\ (mounted /\ mounted' /\ blogs' # blogs)
                => \/ Sub(K(blogs'), K(blogs))
                   \/ Len(blogs') = Len(blogs) + 1 /\ Tail(K(blogs')) = K(blogs)
           /\ (~mounted /\ mounted' /\ Persisted # <<>>)
                => K(blogs') = K(Persisted)]_vars

IdCreatedAtImmutableWitness ==
  /\ lastOp.op = "mount" /\ ~lastOp.seeded /\ Len(blogs) = 2
  /\ \E i \in DOMAIN blogs : blogs[i].lastSaved # blogs[i].createdAt /\ blogs[i].title = <<>>

\* C28 (switch ordering): switchBlog reads the editor and writes the flushed
\* collection before it sets the active id, writes the pointer and loads the
\* target's content into the editor.
SwitchOrdering ==
  lastOp.op = "switch" =>
    LET Pos(x) == {i \in DOMAIN lastOp.steps : lastOp.steps[i] = x}
    IN /\ lastOp.from # NoId => (Pos("getContent") # {} /\ Pos("saveBlogs") # {})
       /\ \A a \in {"getContent", "saveBlogs"} :
            \A b \in {"setContent", "setCurrentBlogId", "setItem"} :
              \A i \in Pos(a), j \in Pos(b) : i < j

SwitchOrderingWitness ==
  /\ lastOp.op = "switch" /\ lastOp.from # lastOp.target /\ lastOp.unsaved
  /\ \E i \in DOMAIN lastOp.steps : lastOp.steps[i] = "setContent"

\* C29 (a commit touches one blog): a title commit, a switch or an autosave
\* fire keeps the length and the order of the collection and changes at most
\* one blog, whose id is the active id.
CommitTouchesOnlyMatch ==
  [][(\/ TitleEffect
      \/ \E t \in TitleInputs : SetTitle(t)
      \/ TimerFire
      \/ \E id \in Ids : SwitchBlog(id))
       => /\ Len(blogs') = Len(blogs)
          /\ LET touched == {i \in DOMAIN blogs : blogs'[i] # blogs[i]}
             IN /\ Cardinality(touched) <= 1
                /\ \A i \in touched : blogs[i].id = currentBlogId']_vars

\* C30 (no cross-document contamination): a step that writes the editor's
\* text into a blog writes it into the blog whose content the editor last
\* loaded.
NoCrossContamination ==
  [][(mounted /\ mounted')
       => \A i \in DOMAIN blogs' :
            (/\ ContentOf(blogs, blogs'[i].id) # <<blogs'[i].content>>
             /\ blogs'[i].content = editor')
              => blogs'[i].id = loadedId']_vars

\* C31 (re-selecting the active blog): a switchBlog to the active blog, with
\* an editor text E not yet stored, leaves E in the editor and as the blog's
\* content in memory and in the store.
ReselectKeepsEdits ==
  (lastOp.op = "switch" /\ lastOp.from = lastOp.target /\ lastOp.unsaved /\ ~lastOp.threw)
    => /\ editor = lastOp.ed
       /\ ContentOf(blogs, lastOp.target) = <<lastOp.ed>>
       /\ ContentOf(Persisted, lastOp.target) = <<lastOp.ed>>

\* C32 (a deleted blog stays deleted): after a confirmed deleteBlog on two or
\* more blogs the deleted id is in neither the collection nor the store, and
\* the handler, with the switchBlog it calls, has not written it back to the
\* store.
DeletedNeverReappears ==
  (lastOp.op = "delete" /\ ~lastOp.rejected /\ lastOp.confirmed)
    => /\ ~lastOp.restored
       /\ Find(blogs, lastOp.id) = <<>>
       /\ Find(Persisted, lastOp.id) = <<>>

\* C33 (the active id names a blog): while mounted, exactly one blog of the
\* collection has the id currentBlogId.
ActiveIdExists ==
  mounted => Cardinality({i \in DOMAIN blogs : blogs[i].id = currentBlogId}) = 1

\* C34 (quiescence): the title effect is never due in a state that its run
\* leaves as it is, itself due again included.
Quiescence ==
  ~(ENABLED TitleEffect /\ ~ENABLED <<TitleEffect>>_vars)
====
